---- MODULE Spec2Model ----
(***************************************************************************)
(* pyWebpower: power analysis entry points (webpower/power_tests.py), the  *)
(* design classes they construct (webpower/*_classes.py) and the grid      *)
(* root-finder nuniroot (webpower/utils.py).                               *)
(*                                                                         *)
(* Numbers are fixed-point: the real x is the integer x * Unit, so 1.0 is  *)
(* Unit and 0.05 is Unit \div 20.  None is "not in the DOMAIN": an         *)
(* argument map or an instance is a function from names to numbers whose   *)
(* domain holds exactly the names that are not None.                       *)
(***************************************************************************)
EXTENDS Integers, Sequences, FiniteSets, TLC

\* Resolution of the fixed-point grid (1.0 == Unit).
Unit == 100

\* One tenth, the step the sampled inputs are taken on.
Tick == Unit \div 10

\* The largest number of roles one call leaves None.
MaxOmitted == 2

Empty == [r \in {} |-> 0]

\* f with x mapped to v (x need not be in DOMAIN f).
Put(f, x, v) == [y \in (DOMAIN f) \cup {x} |-> IF y = x THEN v ELSE f[y]]

\* f without the names in S.
Drop(f, S) == [y \in (DOMAIN f) \ S |-> f[y]]

(***************************************************************************)
(* str.casefold() on the strings the calls use.                            *)
(***************************************************************************)
\* A string kept in the letter case it was passed in.
asGiven(s) == s

casefold(s) ==
  CASE s = "Two-Sided" -> "two-sided"
    [] s = "GREATER" -> "greater"
    [] s = "Overall" -> "overall"
    [] s = "One-Sided" -> "one-sided"
    [] s = "MAIN" -> "main"
    [] s = "Close" -> "close"
    [] s = "Bernoulli" -> "bernoulli"
    [] OTHER -> s

(***************************************************************************)
(* The entry points of power_tests.py.                                     *)
(***************************************************************************)
Designs ==
  { "wp_anova_test", "wp_anova_binary_test", "wp_anova_count_test",
    "wp_kanova_test", "wp_rmanova_test", "wp_one_prop_test",
    "wp_two_prop_one_n_test", "wp_two_prop_two_n_test", "wp_t1_test",
    "wp_t2_test", "wp_regression_test", "wp_poisson_test",
    "wp_logistic_test", "wp_sem_chisq_test", "wp_sem_rmsea_test",
    "wp_mediation_test", "wp_correlation_test", "wp_mrt2arm_test",
    "wp_mrt3arm_test", "wp_crt2arm_test", "wp_crt3arm_test" }

\* The list each entry point counts None in ("One of ... must be None");
\* wp_mrt2arm_test has no such statement.
EntryList(d) ==
  CASE d = "wp_anova_test" -> {"k", "n", "f", "alpha", "power"}
    [] d = "wp_anova_binary_test" -> {"k", "n", "V", "alpha", "power"}
    [] d = "wp_anova_count_test" -> {"k", "n", "V", "alpha", "power"}
    [] d = "wp_kanova_test" -> {"n", "ndf", "f", "ng", "alpha", "power"}
    [] d = "wp_rmanova_test" -> {"n", "ng", "nm", "f", "alpha", "power"}
    [] d = "wp_one_prop_test" -> {"h", "n", "alpha", "power"}
    [] d = "wp_two_prop_one_n_test" -> {"h", "n", "alpha", "power"}
    [] d = "wp_two_prop_two_n_test" -> {"h", "n1", "n2", "alpha", "power"}
    [] d = "wp_t1_test" -> {"n", "d", "alpha", "power"}
    [] d = "wp_t2_test" -> {"n1", "n2", "d", "alpha", "power"}
    [] d = "wp_regression_test" -> {"n", "f2", "alpha", "power"}
    [] d = "wp_poisson_test" -> {"n", "alpha", "power"}
    [] d = "wp_logistic_test" -> {"n", "alpha", "power"}
    [] d = "wp_sem_chisq_test" -> {"n", "df", "effect", "power", "alpha"}
    [] d = "wp_sem_rmsea_test" ->
         {"n", "df", "rmsea0", "rmsea1", "power", "alpha"}
    [] d = "wp_mediation_test" ->
         {"n", "a", "b", "var_x", "var_y", "var_m", "power", "alpha"}
    [] d = "wp_correlation_test" -> {"n", "r", "power", "alpha"}
    [] d = "wp_mrt2arm_test" -> {}
    [] d = "wp_mrt3arm_test" -> {"n", "f1", "J", "power"}
    [] d = "wp_crt2arm_test" -> {"n", "f", "J", "icc", "power", "alpha"}
    [] d = "wp_crt3arm_test" -> {"n", "f", "J", "icc", "power", "alpha"}

\* The parameters whose declared default is None (Optional[...] = None).
OptionalParams(d) ==
  CASE d = "wp_mediation_test" -> {"n", "power", "a", "b", "var_y", "alpha"}
    [] d = "wp_mrt2arm_test" -> {"n", "f", "J", "power"}
    [] OTHER -> EntryList(d)

\* The roles a caller can leave None: the Optional parameters and whatever
\* else the entry point's own list names.
Roles(d) == OptionalParams(d) \cup EntryList(d)

\* The numeric parameters that always carry a value (declared with a number
\* as default), with that default.
Defaults(d) ==
  CASE d = "wp_rmanova_test" -> [r \in {"nscor"} |-> Unit]
    [] d = "wp_regression_test" ->
         [r \in {"p1", "p2"} |-> IF r = "p1" THEN Unit ELSE 0]
    [] d = "wp_poisson_test" ->
         [r \in {"exp0", "exp1"} |-> IF r = "exp0" THEN Unit ELSE Unit \div 2]
    [] d = "wp_logistic_test" -> [r \in {"p0", "p1"} |-> Unit \div 2]
    [] d = "wp_mediation_test" -> [r \in {"var_x", "var_m"} |-> Unit]
    [] d = "wp_correlation_test" -> [r \in {"p", "rho0"} |-> 0]
    [] d = "wp_mrt2arm_test" ->
         [r \in {"tau00", "tau11", "sg2", "alpha"} |->
            IF r = "alpha" THEN Unit \div 20 ELSE Unit]
    [] d = "wp_mrt3arm_test" ->
         [r \in {"f2", "tau", "sg2", "alpha"} |->
            CASE r = "alpha" -> Unit \div 20 [] r = "f2" -> 0 [] OTHER -> Unit]
    [] OTHER -> Empty

Params(d) == Roles(d) \cup DOMAIN Defaults(d)

(***************************************************************************)
(* The validation statements of each entry point after the two None        *)
(* counts, in source order.  <<"unit", r, 0>> is `r is not None and (r < 0 *)
(* or r > 1)`, <<"min", r, m>> is `r is not None and r < m`, <<"gt0", r,   *)
(* 0>> is `r <= 0`, "p1p2" is `p1 < p2`, "alt" and "type" are the          *)
(* membership tests on the casefolded alternative and test_type.           *)
(***************************************************************************)
AlphaPower == << <<"unit", "alpha", 0>>, <<"unit", "power", 0>> >>

Checks(d) ==
  CASE d = "wp_anova_test" ->
         AlphaPower \o << <<"min", "n", 1 * Unit>>, <<"min", "k", 1 * Unit>> >>
    [] d = "wp_anova_binary_test" ->
         AlphaPower \o << <<"min", "n", 1 * Unit>>, <<"min", "k", 1 * Unit>> >>
    [] d = "wp_anova_count_test" ->
         AlphaPower \o << <<"min", "n", 1 * Unit>>, <<"min", "k", 1 * Unit>> >>
    [] d = "wp_kanova_test" ->
         AlphaPower \o << <<"min", "n", 1 * Unit>>, <<"min", "ndf", 1 * Unit>>,
                          <<"min", "ng", 1 * Unit>> >>
    [] d = "wp_rmanova_test" ->
         AlphaPower \o << <<"min", "n", 1 * Unit>>, <<"min", "ng", 1 * Unit>>,
                          <<"min", "nm", 1 * Unit>>, <<"type", "-", 0>> >>
    [] d = "wp_one_prop_test" ->
         AlphaPower \o << <<"min", "n", 1 * Unit>>, <<"alt", "-", 0>> >>
    [] d = "wp_two_prop_one_n_test" ->
         AlphaPower \o << <<"min", "n", 1 * Unit>>, <<"alt", "-", 0>> >>
    [] d = "wp_two_prop_two_n_test" ->
         AlphaPower \o << <<"min", "n1", 2 * Unit>>, <<"min", "n2", 2 * Unit>>,
                          <<"alt", "-", 0>> >>
    [] d = "wp_t1_test" ->
         << <<"min", "n", 2 * Unit>> >> \o AlphaPower
            \o << <<"type", "-", 0>>, <<"alt", "-", 0>> >>
    [] d = "wp_t2_test" ->
         << <<"min", "n1", 2 * Unit>>, <<"min", "n2", 2 * Unit>> >>
            \o AlphaPower \o << <<"alt", "-", 0>> >>
    [] d = "wp_regression_test" ->
         << <<"p1p2", "-", 0>>, <<"min", "p1", 1 * Unit>>,
            <<"min", "n", 5 * Unit>>, <<"min", "f2", 0>> >> \o AlphaPower
    [] d = "wp_poisson_test" ->
         << <<"gt0", "exp0", 0>>, <<"gt0", "exp1", 0>> >> \o AlphaPower
    [] d = "wp_logistic_test" -> AlphaPower
    [] d = "wp_sem_chisq_test" -> AlphaPower
    [] d = "wp_sem_rmsea_test" -> AlphaPower \o << <<"type", "-", 0>> >>
    [] d = "wp_mediation_test" -> AlphaPower
    [] d = "wp_correlation_test" -> AlphaPower
    [] d = "wp_mrt2arm_test" -> << >>
    [] d = "wp_mrt3arm_test" ->
         AlphaPower \o << <<"min", "f1", 0>>, <<"min", "f2", 0>>,
                          <<"min", "n", 3 * Unit>>, <<"min", "J", 2 * Unit>>,
                          <<"min", "tau", 0>>, <<"min", "sg2", 0>>,
                          <<"alt", "-", 0>>, <<"type", "-", 0>> >>
    [] d = "wp_crt2arm_test" ->
         AlphaPower \o << <<"min", "n", 1 * Unit>>, <<"min", "J", 3 * Unit>>,
                          <<"unit", "icc", 0>>, <<"alt", "-", 0>> >>
    [] d = "wp_crt3arm_test" ->
         AlphaPower \o << <<"min", "n", 1 * Unit>>, <<"min", "J", 3 * Unit>>,
                          <<"unit", "icc", 0>>, <<"alt", "-", 0>>,
                          <<"type", "-", 0>> >>

\* The alternatives an entry point's membership test lets through.
AltAllowed(d) ==
  IF d \in {"wp_mrt3arm_test", "wp_crt2arm_test", "wp_crt3arm_test"}
  THEN {"two-sided", "one-sided"}
  ELSE {"two-sided", "greater", "less"}

\* The test types an entry point's membership test lets through.
TypeAllowed(d) ==
  CASE d = "wp_rmanova_test" -> {"between", "within", "interaction"}
    [] d = "wp_t1_test" -> {"two-sample", "one-sample", "paired"}
    [] d = "wp_sem_rmsea_test" -> {"close", "notclose"}
    [] OTHER -> {"main", "treatment", "omnibus"}

\* Whether one validation statement raises.
Raises(c, a, alt, tt, d) ==
  CASE c[1] = "unit" -> c[2] \in DOMAIN a /\ (a[c[2]] < 0 \/ a[c[2]] > Unit)
    [] c[1] = "min" -> c[2] \in DOMAIN a /\ a[c[2]] < c[3]
    [] c[1] = "gt0" -> a[c[2]] <= 0
    [] c[1] = "p1p2" -> a["p1"] < a["p2"]
    [] c[1] = "alt" -> casefold(alt) \notin AltAllowed(d)
    [] c[1] = "type" -> casefold(tt) \notin TypeAllowed(d)

\* The error a failed validation statement raises: its kind and the role.
ErrorOf(c) ==
  CASE c[1] \in {"alt", "type"} -> <<"variant", c[1]>>
    [] c[1] = "p1p2" -> <<"domain", "p1">>
    [] OTHER -> <<"domain", c[2]>>

\* The entry point's validation: the first statement that raises, or "ok".
Validate(d, a, alt, tt) ==
  LET none == {r \in EntryList(d) : r \notin DOMAIN a}
      cs == Checks(d)
      bad == {i \in 1..Len(cs) : Raises(cs[i], a, alt, tt, d)}
  IN  IF EntryList(d) # {} /\ none = {} THEN <<"none_required", "-">>
      ELSE IF Cardinality(none) > 1 THEN <<"only_one_none", "-">>
      ELSE IF bad # {} THEN ErrorOf(cs[CHOOSE i \in bad : \A j \in bad : i <= j])
      ELSE <<"ok", "-">>

(***************************************************************************)
(* The design classes: construction.                                       *)
(***************************************************************************)
\* __init__: the instance fields that are not None.  WpPoisson and
\* WpLogistic store alpha / 2 for the two-sided alternative.
Construct(d, a, alt) ==
  IF d \in {"wp_poisson_test", "wp_logistic_test"}
     /\ "alpha" \in DOMAIN a /\ casefold(alt) = "two-sided"
  THEN [a EXCEPT !["alpha"] = a["alpha"] \div 2]
  ELSE a

\* __init__ of WpLogistic raises when abs(p0) > 1 or abs(p1) > 1.
InitRaises(d, a) ==
  /\ d = "wp_logistic_test"
  /\ \E r \in {"p0", "p1"} : a[r] > Unit \/ a[r] < 0 - Unit

(***************************************************************************)
(* pwr_test: the if / elif chain.  The last name is the else branch.       *)
(***************************************************************************)
DispatchOrder(d) ==
  CASE d = "wp_anova_test" -> <<"power", "k", "n", "f", "alpha">>
    [] d = "wp_anova_binary_test" -> <<"power", "k", "n", "V", "alpha">>
    [] d = "wp_anova_count_test" -> <<"power", "k", "n", "V", "alpha">>
    [] d = "wp_kanova_test" -> <<"power", "n", "ndf", "ng", "f", "alpha">>
    [] d = "wp_rmanova_test" -> <<"power", "n", "nm", "ng", "f", "alpha">>
    [] d = "wp_one_prop_test" -> <<"power", "h", "n", "alpha">>
    [] d = "wp_two_prop_one_n_test" -> <<"power", "h", "n", "alpha">>
    [] d = "wp_two_prop_two_n_test" -> <<"power", "h", "n1", "n2", "alpha">>
    [] d = "wp_t1_test" -> <<"power", "d", "n", "alpha">>
    [] d = "wp_t2_test" -> <<"power", "d", "n1", "n2", "alpha">>
    [] d = "wp_regression_test" -> <<"power", "n", "f2", "alpha">>
    [] d = "wp_poisson_test" -> <<"power", "n", "alpha">>
    [] d = "wp_logistic_test" -> <<"power", "n", "alpha">>
    [] d = "wp_sem_chisq_test" -> <<"power", "effect", "n", "df", "alpha">>
    [] d = "wp_sem_rmsea_test" ->
         <<"power", "rmsea0", "rmsea1", "n", "df", "alpha">>
    [] d = "wp_mediation_test" -> <<"power", "n", "var_y", "a", "b", "alpha">>
    [] d = "wp_correlation_test" -> <<"power", "n", "r", "alpha">>
    [] d = "wp_mrt2arm_test" -> <<"power", "n", "J", "f">>
    [] d = "wp_mrt3arm_test" -> <<"power", "J", "n", "f1">>
    [] d = "wp_crt2arm_test" -> <<"power", "n", "J", "f", "icc", "alpha">>
    [] d = "wp_crt3arm_test" -> <<"power", "f", "n", "J", "icc", "alpha">>

\* The branch pwr_test takes on instance o: the first tested field that is
\* None, else the else branch.
Branch(d, o) ==
  LET ord == DispatchOrder(d)
      none == {i \in 1..(Len(ord) - 1) : ord[i] \notin DOMAIN o}
  IN  IF none = {} THEN ord[Len(ord)]
      ELSE ord[CHOOSE i \in none : \A j \in none : i <= j]

\* Ceiled without the group counts.
CeiledSampleSizesOnly(d) ==
  IF d \in {"wp_two_prop_two_n_test", "wp_t2_test"} THEN {"n1", "n2"}
  ELSE {"n"}

\* The branches whose root pwr_test passes through ceil().
Ceiled(d) ==
  CASE d \in {"wp_anova_test", "wp_anova_binary_test", "wp_anova_count_test"}
         -> {"k", "n"}
    [] d = "wp_kanova_test" -> {"n", "ndf", "ng"}
    [] d = "wp_rmanova_test" -> {"n", "nm", "ng"}
    [] d \in {"wp_two_prop_two_n_test", "wp_t2_test"} -> {"n1", "n2"}
    [] d \in {"wp_sem_chisq_test", "wp_sem_rmsea_test"} -> {"n", "df"}
    [] d \in {"wp_mrt2arm_test", "wp_mrt3arm_test", "wp_crt2arm_test",
              "wp_crt3arm_test"} -> {"n", "J"}
    [] OTHER -> {"n"}

\* math.floor on the fixed-point grid.
floor(x) == (x \div Unit) * Unit

\* math.ceil on the fixed-point grid.
ceil(x) == (0 - ((0 - x) \div Unit)) * Unit

\* The root-finder each branch calls.
Finder(d, role) ==
  CASE role = "power" -> "-"
    [] d \in {"wp_mrt2arm_test", "wp_mrt3arm_test", "wp_crt2arm_test",
              "wp_crt3arm_test"} -> "nuniroot"
    [] d = "wp_mediation_test" -> IF role = "n" THEN "brentq" ELSE "nuniroot"
    [] d \in {"wp_anova_test", "wp_anova_binary_test", "wp_anova_count_test"}
         -> IF role \in {"k", "f", "V"} THEN "bisect" ELSE "brentq"
    [] d = "wp_kanova_test" ->
         IF role \in {"ndf", "f"} THEN "bisect" ELSE "brentq"
    [] d = "wp_rmanova_test" ->
         IF role \in {"nm", "ng", "f"} THEN "bisect" ELSE "brentq"
    [] OTHER -> "brentq"

(***************************************************************************)
(* The fixed interval each branch searches.                                *)
(***************************************************************************)
\* The offsets 1e-10, 1e-07 and 1e-06 of the intervals: one grid step.
Eps == 1

\* The search intervals end at 1e03 .. 1e09; the model follows them up to
\* Horizon.
Horizon == 1000

min(S) == CHOOSE x \in S : \A y \in S : x <= y

max(S) == CHOOSE x \in S : \A y \in S : x >= y

Far(x) == min({x, Horizon}) * Unit

\* math.sqrt on the fixed-point grid (rounded down).
sqrt(x) ==
  CHOOSE r \in 0..(x + Unit) : r * r <= x * Unit /\ (r + 1) * (r + 1) > x * Unit

\* The effect-size bracket when every alternative searches (-10, 10).
EffectIntervalSymmetric(alt, lowTwoSided) == <<0 - 10 * Unit, 10 * Unit>>

EffectInterval(alt, lowTwoSided) ==
  CASE alt = "two-sided" -> <<lowTwoSided, 10 * Unit>>
    [] alt = "greater" -> <<0 - 5 * Unit, 10 * Unit>>
    [] OTHER -> <<0 - 10 * Unit, 5 * Unit>>

AlphaInterval == <<Eps, Unit - Eps>>

Interval(d, role, o, alt) ==
  CASE role = "alpha" -> AlphaInterval
    [] role = "icc" -> <<0, Unit>>
    [] d \in {"wp_anova_test", "wp_anova_binary_test", "wp_anova_count_test"}
         -> CASE role = "k" -> <<2 * Unit + Eps, 100 * Unit>>
              [] role = "n" -> <<2 * Unit + o["k"] + Eps, Far(100000)>>
              [] OTHER -> <<Eps, Far(10000000)>>
    [] d = "wp_kanova_test" ->
         CASE role = "n" -> <<1 * Unit + o["ng"], Far(10000000)>>
           [] role = "ndf" -> <<1 * Unit + Eps, Far(100000)>>
           [] OTHER -> <<Eps, Far(10000000)>>
    [] d = "wp_rmanova_test" ->
         CASE role = "n" -> <<5 * Unit, Far(10000000)>>
           [] role \in {"nm", "ng"} -> <<1 * Unit + Eps, Far(100000)>>
           [] OTHER -> <<Eps, Far(10000000)>>
    [] d \in {"wp_one_prop_test", "wp_two_prop_one_n_test",
              "wp_two_prop_two_n_test", "wp_t1_test", "wp_t2_test"} ->
         IF role \in {"h", "d"} THEN EffectInterval(alt, Eps)
         ELSE <<2 * Unit + Eps, Far(1000000000)>>
    [] d = "wp_regression_test" ->
         IF role = "n" THEN <<5 * Unit + o["p1"] + Eps, Far(100000)>>
         ELSE <<Eps, Far(10000000)>>
    [] d \in {"wp_poisson_test", "wp_logistic_test"} ->
         <<2 * Unit + Eps, Far(10000000)>>
    [] d = "wp_sem_chisq_test" ->
         CASE role = "effect" -> <<0, Unit>>
           [] role = "n" -> <<10 * Unit + Eps, Far(1000000000)>>
           [] OTHER -> <<1 * Unit, Far(10000)>>
    [] d = "wp_sem_rmsea_test" ->
         CASE role \in {"rmsea0", "rmsea1"} -> <<0, Unit>>
           [] role = "n" -> <<2 * Unit + Eps, Far(1000000000)>>
           [] OTHER -> <<1 * Unit, Far(10000)>>
    [] d = "wp_mediation_test" ->
         CASE role = "n" -> <<2 * Unit + Eps, Far(1000000000)>>
           [] role = "var_y" -> <<Eps, Far(10000000)>>
           [] role = "a" ->
                LET astart == (o["var_m"] * Unit) \div o["var_x"]
                IN  <<Eps - sqrt(astart), sqrt(astart) - Eps>>
           [] OTHER -> <<0 - 10 * Unit, 10 * Unit>>
    [] d = "wp_correlation_test" ->
         CASE role = "n" -> <<4 * Unit + o["p"] + Eps, Far(10000000)>>
           [] alt = "two-sided" -> <<Eps, Unit - Eps>>
           [] OTHER -> <<Eps - Unit, Unit - Eps>>
    [] d = "wp_mrt2arm_test" ->
         CASE role = "n" -> <<3 * Unit - Eps, Far(1000000)>>
           [] role = "J" -> <<1 * Unit + Eps, Far(1000)>>
           [] OTHER -> <<Eps, Far(10000000)>>
    [] d = "wp_mrt3arm_test" ->
         CASE role = "J" -> <<2 * Unit - Eps, Far(1000)>>
           [] role = "n" -> <<3 * Unit - Eps, Far(10000000)>>
           [] OTHER -> <<Eps, Far(10000000)>>
    [] d = "wp_crt2arm_test" ->
         CASE role = "n" -> <<1 * Unit, Far(1000000)>>
           [] role = "J" -> <<2 * Unit + Eps, Far(1000)>>
           [] OTHER -> <<Eps, Far(10000000)>>
    [] d = "wp_crt3arm_test" ->
         CASE role = "n" -> <<2 * Unit + Eps, Far(1000000)>>
           [] role = "J" -> <<3 * Unit + Eps, Far(1000)>>
           [] OTHER -> <<Eps, Far(10000000)>>

(***************************************************************************)
(* utils.nuniroot: sample f on a grid, fail or bracket, then bisect.       *)
(***************************************************************************)
\* nuniroot's max_length (100 in the source): the number of grid points.
GridLen == 4

\* np.linspace(low_val, high_val, m, endpoint=False).
linspaceOpen(low_val, high_val, m) ==
  [i \in 1..m |-> low_val + ((i - 1) * (high_val - low_val)) \div m]

\* np.linspace(low_val, high_val, m) on the fixed-point grid.
linspace(low_val, high_val, m) ==
  [i \in 1..m |-> low_val + ((i - 1) * (high_val - low_val)) \div (m - 1)]

\* [f(x_i) for x_i in x]: the points f is evaluated at, in order.
Evaluations(x) == [i \in 1..Len(x) |-> x[i]]

Range(s) == {s[i] : i \in DOMAIN s}

\* x[f_output == v][0]: the x of the first sample equal to v.
FirstAt(x, f_output, v) == x[min({i \in DOMAIN f_output : f_output[i] = v})]

\* nuniroot bracketing from the negative sample farthest from zero.
nunirootFarthest(x, f_output) ==
  LET neg == {v \in Range(f_output) : v < 0}
      pos == {v \in Range(f_output) : v > 0}
  IN  IF min(Range(f_output)) * max(Range(f_output)) > 0
      THEN [status |-> "noroot", interval |-> <<0, 0>>]
      ELSE IF neg = {} \/ pos = {}
      THEN [status |-> "empty", interval |-> <<0, 0>>]
      ELSE [status |-> "bisect",
            interval |-> <<FirstAt(x, f_output, min(neg)),
                           FirstAt(x, f_output, min(pos))>>]

\* nuniroot bracketing from the largest sample that is not positive.
nunirootNonPositive(x, f_output) ==
  LET neg == {v \in Range(f_output) : v <= 0}
      pos == {v \in Range(f_output) : v > 0}
  IN  IF min(Range(f_output)) * max(Range(f_output)) > 0
      THEN [status |-> "noroot", interval |-> <<0, 0>>]
      ELSE IF neg = {} \/ pos = {}
      THEN [status |-> "empty", interval |-> <<0, 0>>]
      ELSE [status |-> "bisect",
            interval |-> <<FirstAt(x, f_output, max(neg)),
                           FirstAt(x, f_output, min(pos))>>]

\* Lines 26-34 of utils.py on the samples f_output taken at x: the advising
\* ValueError ("noroot"), the ValueError of max()/min() on an empty selection
\* ("empty"), or the interval handed to bisect.
nuniroot(x, f_output) ==
  LET neg == {v \in Range(f_output) : v < 0}
      pos == {v \in Range(f_output) : v > 0}
  IN  IF min(Range(f_output)) * max(Range(f_output)) > 0
      THEN [status |-> "noroot", interval |-> <<0, 0>>]
      ELSE IF neg = {} \/ pos = {}
      THEN [status |-> "empty", interval |-> <<0, 0>>]
      ELSE [status |-> "bisect",
            interval |-> <<FirstAt(x, f_output, max(neg)),
                           FirstAt(x, f_output, min(pos))>>]

\* The points of [a, b] (in either order) a root-finder's result is drawn
\* from: the ends, and points next to them that are not whole numbers.
Roots(a, b) ==
  LET lo == min({a, b})
      hi == max({a, b})
  IN  {x \in {lo, lo + 3 * Tick, lo + Unit - Eps, hi - 3 * Tick, hi} :
         lo <= x /\ x <= hi}

\* The signs a residual takes at the grid points.
Signs == {0 - 1, 0, 1}

(***************************************************************************)
(* Evaluating a formula: the fields it reads, and where it raises.         *)
(***************************************************************************)
\* The roles no formula of the design reads under test type tt.
Unread(d, tt) ==
  CASE d = "wp_rmanova_test" /\ tt = "between" -> {"nm"}
    [] d = "wp_mrt2arm_test" /\ tt # "main" -> {"f"}
    [] d = "wp_mrt3arm_test" /\ tt = "treatment" -> {"f1"}
    [] OTHER -> {}

\* The residuals that read the field they solve for off the instance
\* instead of taking the candidate.
ReadsOwnField(d, b, tt) ==
  \/ d = "wp_anova_test" /\ b = "k" /\ tt = "two-sided"
  \/ d = "wp_mrt2arm_test" /\ b = "n" /\ tt # "main"

\* The instance fields branch b reads (self.x) under test type tt.
SelfReads(d, b, tt) ==
  LET all == Params(d) \ Unread(d, tt)
  IN  IF b = "power" THEN all \ {"power"}
      ELSE IF ReadsOwnField(d, b, tt) THEN all
      ELSE all \ {b}

\* The residuals that raise instead of computing: the exception raised.
ResidualRaises(d, b, tt) ==
  CASE d = "wp_rmanova_test" /\ b = "nm" /\ tt = "between" -> "ValueError"
    [] d = "wp_mrt2arm_test" /\ b = "f" /\ tt # "main" -> "NotImplementedError"
    [] d = "wp_mrt3arm_test" /\ b = "f1" /\ tt = "treatment" -> "ValueError"
    [] OTHER -> "-"

\* The fields such a residual reads before it raises (df = self.J - 1).
ReadsBeforeRaise(d, b) ==
  IF d \in {"wp_mrt2arm_test", "wp_mrt3arm_test"} THEN {"J"} ELSE {}

\* The key of the result record a role is returned under.
Key(d, r) ==
  IF r \in {"f", "V", "h", "d", "effect", "r"}
     \/ (r = "f2" /\ d = "wp_regression_test")
  THEN "effect_size"
  ELSE r

\* The dict pwr_test returns, on the fields that are not None.
ResultRecord(d, o) ==
  [key \in {Key(d, r) : r \in DOMAIN o} |->
     o[CHOOSE r \in DOMAIN o : Key(d, r) = key]]

(***************************************************************************)
(* What a residual's root means: the forward formula it was solved on.     *)
(* Library calls (ncf.sf, nct.cdf, f_dist.ppf, norm.cdf, ...) are not      *)
(* computed; a formula is the record of what it is evaluated on, and two   *)
(* evaluations are known to agree when their records are equal.            *)
(***************************************************************************)
\* (dfn, dfd) of the f_dist.ppf call in WpCRT3Arm's omnibus branch:
\* _get_power, _get_icc and _get_alpha pass (df, df1); _get_effect_size,
\* _get_n and _get_J pass (df1, df).
Quantile(d, b, o, tt) ==
  IF d = "wp_crt3arm_test" /\ tt = "omnibus"
  THEN LET df == o["J"] - 3 * Unit
           df1 == 2 * Unit
       IN  IF b \in {"f", "n", "J"} THEN <<df1, df>> ELSE <<df, df1>>
  ELSE << >>

\* The power formula as method b evaluates it on the fields o.
Formula(d, b, o, alt, tt) ==
  [design |-> d, alternative |-> alt, test_type |-> tt,
   reads |-> [r \in ((DOMAIN o) \cap Params(d)) \ (Unread(d, tt) \cup {"power"})
                |-> o[r]],
   quantile |-> Quantile(d, b, o, tt)]

NoFormula ==
  [design |-> "-", alternative |-> "-", test_type |-> "-", reads |-> Empty,
   quantile |-> << >>]

\* Nothing is known yet about any formula's value.
Unknown == [role |-> "-", target |-> 0, formula |-> NoFormula]

\* The powers a forward evaluation is drawn from when nothing is known
\* about the formula.
PowerValues == {5 * Tick, 8 * Tick}

\* _get_power(): the value a root was solved for when the formula is the
\* one that root was found on.
PowerOf(formula, known) ==
  IF known.formula = formula THEN {known.target} ELSE PowerValues

(***************************************************************************)
(* One call, from the entry point's first statement to its return or       *)
(* raise: every outcome it can have.                                       *)
(***************************************************************************)
\* numpy.nan, the value scipy's distribution functions return when a shape
\* argument is outside its domain; no number of the model equals it.
NaN == 0 - (Horizon + 1) * Unit

\* The denominator degrees of freedom n - k that WpAnovaClass._get_power
\* hands to f_dist, ncf, t_dist and nct are not positive.
NegativeDf(d, o) ==
  /\ d = "wp_anova_test"
  /\ {"n", "k"} \subseteq DOMAIN o
  /\ o["n"] - o["k"] <= 0

\* calls: the evaluations and root-finder calls pwr_test made, in order.
\* ends: the residual at the two ends of the interval brentq or bisect was
\* called on ("neg", "zero", "pos", "nan"), "-" when neither was called.
NoEnds == <<"-", "-">>

NoOut ==
  [status |-> "none", error |-> "-", about |-> "-", stage |-> "-",
   branch |-> "-", finder |-> "-", ends |-> NoEnds, calls |-> << >>,
   root |-> 0, record |-> Empty]

\* o: the instance, Empty when none was constructed.
Raised(e, r, st, b, fd, o) ==
  [out |-> [status |-> "raised", error |-> e, about |-> r, stage |-> st,
            branch |-> b, finder |-> fd, ends |-> NoEnds, calls |-> << >>,
            root |-> 0, record |-> Empty],
   obj |-> o]

Returned(d, o, b, fd, x) ==
  [out |-> [status |-> "returned", error |-> "-", about |-> "-",
            stage |-> "pwr_test", branch |-> b, finder |-> fd,
            ends |-> NoEnds, calls |-> << >>, root |-> x,
            record |-> ResultRecord(d, o)],
   obj |-> o]

\* The same outcome, of a call of brentq or bisect that saw fa and fb at the
\* ends.
Saw(r, fa, fb) == [r EXCEPT !.out.ends = <<fa, fb>>]

\* What the residual can be at an end of the interval: a negative, zero or
\* positive number, or not a number (a distribution call with zero or
\* negative degrees of freedom).
EndValues == {"neg", "zero", "pos", "nan"}

\* scipy.optimize.brentq / bisect on [a, b] with fa and fb at the ends: the
\* sign error ("bracket"), the refusal of a NaN value by the releases that
\* test for it ("nan"), or the points the result is drawn from.  A zero end
\* is returned as it is; with a NaN end the releases that do not test for
\* it iterate on and return a point of the interval.
RootFinder(a, b, fa, fb) ==
  CASE fa = "nan" \/ fb = "nan" ->
         [errors |-> {"nan"}, roots |-> Roots(a, b)]
    [] fa = "zero" -> [errors |-> {}, roots |-> {a}]
    [] fb = "zero" -> [errors |-> {}, roots |-> {b}]
    [] fa = fb -> [errors |-> {"bracket"}, roots |-> {}]
    [] OTHER -> [errors |-> {}, roots |-> Roots(a, b)]

\* The branch of pwr_test that calls a root-finder on the residual of b.
Solve(d, o, b, alt) ==
  LET fd == Finder(d, b)
      iv == Interval(d, b, o, alt)
      done(x) ==
        Returned(d, Put(o, b, IF b \in Ceiled(d) THEN ceil(x) ELSE x), b, fd, x)
  IN  IF fd = "nuniroot"
      THEN UNION {
             LET r == nuniroot(linspace(iv[1], iv[2], GridLen), f_output)
             IN  IF r.status = "bisect"
                 THEN {done(x) : x \in Roots(r.interval[1], r.interval[2])}
                 ELSE {Raised(r.status, b, "pwr_test", b, fd, o)}
             : f_output \in [1..GridLen -> Signs] }
      ELSE UNION {
             LET r == RootFinder(iv[1], iv[2], fa, fb)
             IN  {Saw(Raised(e, b, "pwr_test", b, fd, o), fa, fb) :
                    e \in r.errors}
                   \cup {Saw(done(x), fa, fb) : x \in r.roots}
             : fa \in EndValues, fb \in EndValues }

\* The calls one run of pwr_test makes in branch b: the forward evaluation,
\* or the root-finder of the branch, once.
InvocationsWithRetry(d, b) ==
  IF b = "power"
  THEN <<"_get_power">>
  ELSE IF Key(d, b) = "effect_size"
  THEN <<Finder(d, b), Finder(d, b)>>
  ELSE <<Finder(d, b)>>

Invocations(d, b) ==
  IF b = "power" THEN <<"_get_power">> ELSE <<Finder(d, b)>>

Called(r, c) == [r EXCEPT !.out.calls = c]

pwr_test(d, o, alt, tt, known) ==
  LET b == Branch(d, o)
      fd == Finder(d, b)
      run ==
        IF b = "power"
        THEN IF SelfReads(d, b, tt) \ DOMAIN o # {}
             THEN {Raised("TypeError", b, "pwr_test", b, fd, o)}
             ELSE {Returned(d, Put(o, b, p), b, fd, 0) :
                     p \in IF NegativeDf(d, o)
                           THEN {NaN}
                           ELSE PowerOf(Formula(d, b, o, alt, tt), known)}
        ELSE IF ResidualRaises(d, b, tt) # "-"
        THEN IF ReadsBeforeRaise(d, b) \ DOMAIN o # {}
             THEN {Raised("TypeError", b, "pwr_test", b, fd, o)}
             ELSE {Raised(ResidualRaises(d, b, tt), b, "pwr_test", b, fd, o)}
        ELSE IF SelfReads(d, b, tt) \ DOMAIN o # {}
        THEN {Raised("TypeError", b, "pwr_test", b, fd, o)}
        ELSE Solve(d, o, b, alt)
  IN  {Called(r, Invocations(d, b)) : r \in run}

Outcomes(c, known) ==
  LET d == c.design
      v == Validate(d, c.args, c.alternative, c.test_type)
  IN  IF v[1] # "ok" THEN {Raised(v[1], v[2], "entry", "-", "-", Empty)}
      ELSE IF InitRaises(d, c.args)
      THEN {Raised("domain", "p0", "init", "-", "-", Empty)}
      ELSE pwr_test(d, Construct(d, c.args, c.alternative),
                    casefold(c.alternative), casefold(c.test_type), known)

(***************************************************************************)
(* The calls: every parameter at a usual value, at most one of them moved  *)
(* to an edge of its domain, and up to MaxOmitted roles left None.         *)
(***************************************************************************)
Counts == {"n", "n1", "n2", "k", "J", "ng", "ndf", "nm", "df"}

Nominal(r) ==
  CASE r = "alpha" -> Tick
    [] r = "power" -> 8 * Tick
    [] r \in {"n", "n1", "n2"} -> 20 * Unit
    [] r = "k" -> 4 * Unit
    [] r \in {"J", "df"} -> 10 * Unit
    [] r \in {"ng", "ndf"} -> 2 * Unit
    [] r = "nm" -> 3 * Unit
    [] r \in {"icc", "rmsea1"} -> Tick
    [] r = "rmsea0" -> Tick \div 2
    [] r = "var_y" -> Unit
    [] OTHER -> 3 * Tick

Edge(r) ==
  CASE r \in {"alpha", "power"} -> {0 - Tick, 0, Unit, Unit + Tick}
    [] r = "icc" -> {0 - Tick, Unit + Tick}
    [] r \in Counts -> {0, Unit}
    [] r \in {"f", "V", "h", "d", "f1", "f2", "a", "b", "r", "effect"}
         -> {0 - 3 * Tick}
    [] r = "p0" -> {2 * Unit}
    [] r = "p2" -> {Unit, 2 * Unit}
    [] r \in {"p1", "exp0"} -> {0}
    [] r \in {"tau", "sg2"} -> {0 - Unit}
    [] OTHER -> {}

Base(d) ==
  [r \in Params(d) |->
     IF r \in DOMAIN Defaults(d) THEN Defaults(d)[r] ELSE Nominal(r)]

Cases(d) ==
  {Base(d)} \cup
    UNION {{[Base(d) EXCEPT ![r] = v] : v \in Edge(r)} : r \in Params(d)}

Omissions(d) == {S \in SUBSET Roles(d) : Cardinality(S) <= MaxOmitted}

\* The alternative strings passed ("-": the entry point has no such
\* parameter).
Alternatives(d) ==
  CASE d \in {"wp_one_prop_test", "wp_two_prop_one_n_test",
              "wp_two_prop_two_n_test", "wp_t1_test", "wp_t2_test",
              "wp_poisson_test", "wp_logistic_test", "wp_correlation_test"}
         -> {"two-sided", "greater", "less", "Two-Sided", "sideways"}
    [] d \in {"wp_mrt2arm_test", "wp_mrt3arm_test", "wp_crt2arm_test",
              "wp_crt3arm_test"}
         -> {"two-sided", "one-sided", "One-Sided", "sideways"}
    [] OTHER -> {"-"}

\* The test_type strings passed.
TestTypes(d) ==
  CASE d = "wp_anova_test" -> {"overall", "two-sided", "less", "Overall"}
    [] d = "wp_rmanova_test" -> {"between", "within", "interaction", "sideways"}
    [] d = "wp_t1_test" -> {"two-sample", "paired", "sideways"}
    [] d = "wp_regression_test" -> {"regular", "cohen"}
    [] d = "wp_sem_rmsea_test" -> {"close", "notclose", "Close", "sideways"}
    [] d = "wp_mrt2arm_test" -> {"main", "site", "variance", "MAIN"}
    [] d \in {"wp_mrt3arm_test", "wp_crt3arm_test"}
         -> {"main", "treatment", "omnibus", "MAIN", "sideways"}
    [] OTHER -> {"-"}

Calls(d) ==
  {[design |-> d, args |-> Drop(a, S), alternative |-> alt, test_type |-> tt] :
     a \in Cases(d), S \in Omissions(d), alt \in Alternatives(d),
     tt \in TestTypes(d)}

(***************************************************************************)
(* State: the call being made, the instance it constructed, what it        *)
(* returned or raised, and what an earlier call's root is known to solve.  *)
(***************************************************************************)
VARIABLES call, obj, out, prev, grid, log, memo

vars == <<call, obj, out, prev, grid, log, memo>>

\* No direct call of nuniroot is under way.
NoGrid ==
  [status |-> "idle", low_val |-> 0, high_val |-> 0, f_output |-> << >>,
   x |-> << >>, bisect |-> << >>, result |-> 0]

Init ==
  /\ call \in UNION {Calls(d) : d \in Designs}
  /\ obj = Empty
  /\ out = NoOut
  /\ prev = Unknown
  /\ grid = NoGrid
  /\ log = << >>
  /\ memo = Empty

\* One entry point, from its first statement to its return or raise.
EntryPoint(d) ==
  /\ out.status = "none"
  /\ \E r \in Outcomes(call, prev) :
       /\ out' = r.out
       /\ obj' = r.obj
  /\ UNCHANGED <<call, prev, grid, log, memo>>

wp_anova_test ==
  /\ call.design = "wp_anova_test"
  /\ EntryPoint("wp_anova_test")

wp_anova_binary_test ==
  /\ call.design = "wp_anova_binary_test"
  /\ EntryPoint("wp_anova_binary_test")

wp_anova_count_test ==
  /\ call.design = "wp_anova_count_test"
  /\ EntryPoint("wp_anova_count_test")

wp_kanova_test ==
  /\ call.design = "wp_kanova_test"
  /\ EntryPoint("wp_kanova_test")

wp_rmanova_test ==
  /\ call.design = "wp_rmanova_test"
  /\ EntryPoint("wp_rmanova_test")

wp_one_prop_test ==
  /\ call.design = "wp_one_prop_test"
  /\ EntryPoint("wp_one_prop_test")

wp_two_prop_one_n_test ==
  /\ call.design = "wp_two_prop_one_n_test"
  /\ EntryPoint("wp_two_prop_one_n_test")

wp_two_prop_two_n_test ==
  /\ call.design = "wp_two_prop_two_n_test"
  /\ EntryPoint("wp_two_prop_two_n_test")

wp_t1_test ==
  /\ call.design = "wp_t1_test"
  /\ EntryPoint("wp_t1_test")

wp_t2_test ==
  /\ call.design = "wp_t2_test"
  /\ EntryPoint("wp_t2_test")

wp_regression_test ==
  /\ call.design = "wp_regression_test"
  /\ EntryPoint("wp_regression_test")

wp_poisson_test ==
  /\ call.design = "wp_poisson_test"
  /\ EntryPoint("wp_poisson_test")

wp_logistic_test ==
  /\ call.design = "wp_logistic_test"
  /\ EntryPoint("wp_logistic_test")

wp_sem_chisq_test ==
  /\ call.design = "wp_sem_chisq_test"
  /\ EntryPoint("wp_sem_chisq_test")

wp_sem_rmsea_test ==
  /\ call.design = "wp_sem_rmsea_test"
  /\ EntryPoint("wp_sem_rmsea_test")

wp_mediation_test ==
  /\ call.design = "wp_mediation_test"
  /\ EntryPoint("wp_mediation_test")

wp_correlation_test ==
  /\ call.design = "wp_correlation_test"
  /\ EntryPoint("wp_correlation_test")

wp_mrt2arm_test ==
  /\ call.design = "wp_mrt2arm_test"
  /\ EntryPoint("wp_mrt2arm_test")

wp_mrt3arm_test ==
  /\ call.design = "wp_mrt3arm_test"
  /\ EntryPoint("wp_mrt3arm_test")

wp_crt2arm_test ==
  /\ call.design = "wp_crt2arm_test"
  /\ EntryPoint("wp_crt2arm_test")

wp_crt3arm_test ==
  /\ call.design = "wp_crt3arm_test"
  /\ EntryPoint("wp_crt3arm_test")


\* The caller takes the continuous root of a solved role and calls the same
\* entry point again with that role fixed to it and power omitted.
RoundTrip ==
  /\ out.status = "returned"
  /\ out.branch # "power"
  /\ prev = Unknown
  /\ "power" \in DOMAIN obj
  /\ call' = [call EXCEPT
                !.args = Put(Drop(call.args, {"power"}), out.branch, out.root)]
  /\ prev' = [role |-> out.branch, target |-> obj["power"],
              formula |-> Formula(call.design, out.branch,
                                  Put(obj, out.branch, out.root),
                                  casefold(call.alternative),
                                  casefold(call.test_type))]
  /\ obj' = Empty
  /\ out' = NoOut
  /\ UNCHANGED <<grid, log, memo>>

Next ==
  \/ wp_anova_test \/ wp_anova_binary_test \/ wp_anova_count_test
  \/ wp_kanova_test \/ wp_rmanova_test \/ wp_one_prop_test
  \/ wp_two_prop_one_n_test \/ wp_two_prop_two_n_test \/ wp_t1_test
  \/ wp_t2_test \/ wp_regression_test \/ wp_poisson_test
  \/ wp_logistic_test \/ wp_sem_chisq_test \/ wp_sem_rmsea_test
  \/ wp_mediation_test \/ wp_correlation_test \/ wp_mrt2arm_test
  \/ wp_mrt3arm_test \/ wp_crt2arm_test \/ wp_crt3arm_test
  \/ RoundTrip

Spec == Init /\ [][Next]_vars

(***************************************************************************)
(* nuniroot called on its own: f is given by the values it takes at the    *)
(* grid points, and bisect returns some point of the interval it is given. *)
(***************************************************************************)
\* The largest magnitude of a sampled value.
SampleMax == 2

SampleValues == (0 - SampleMax)..SampleMax

SearchIntervals ==
  {<<0, Unit>>, <<0 - 10 * Unit, 10 * Unit>>, <<Eps, Far(10000000)>>}

NoCall ==
  [design |-> "-", args |-> Empty, alternative |-> "-", test_type |-> "-"]

InitRoot ==
  /\ \E iv \in SearchIntervals, fs \in [1..GridLen -> SampleValues] :
       grid = [status |-> "called", low_val |-> iv[1], high_val |-> iv[2],
               f_output |-> fs, x |-> << >>, bisect |-> << >>, result |-> 0]
  /\ call = NoCall
  /\ obj = Empty
  /\ out = NoOut
  /\ prev = Unknown
  /\ log = << >>
  /\ memo = Empty

\* utils.nuniroot from line 24 to its raise or return.  grid.bisect lists
\* the intervals bisect was called on, log the points f was sampled at.
nuniroot_call ==
  LET x == linspace(grid.low_val, grid.high_val, GridLen)
      r == nuniroot(x, grid.f_output)
  IN  /\ grid.status = "called"
      /\ log' = Evaluations(x)
      /\ IF r.status = "bisect"
         THEN \E root \in Roots(r.interval[1], r.interval[2]) :
                grid' = [grid EXCEPT !.status = "returned", !.x = x,
                                     !.bisect = <<r.interval>>,
                                     !.result = root]
         ELSE grid' = [grid EXCEPT !.status = r.status, !.x = x]
      /\ UNCHANGED <<call, obj, out, prev, memo>>

NextRoot == nuniroot_call

SpecRoot == InitRoot /\ [][NextRoot]_vars

(***************************************************************************)
(* Power at a whole number next to a root.                                 *)
(***************************************************************************)
\* The residuals in which the candidate is only a degrees-of-freedom
\* argument and the noncentrality does not depend on it (WPSEMChisq._get_df,
\* WpKAnovaClass._get_numerator_df): the power falls as the candidate grows.
Falls(d, b) ==
  \/ d = "wp_sem_chisq_test" /\ b = "df"
  \/ d = "wp_kanova_test" /\ b = "ndf"

\* The power of the formula of role b at y against its power at the root x
\* (which is the requested power).
PowerAt(d, b, y, x) ==
  IF y = x THEN "at"
  ELSE IF Falls(d, b) THEN (IF y > x THEN "below" ELSE "above")
  ELSE "unknown"

(***************************************************************************)
(* Properties.                                                             *)
(***************************************************************************)
\* The roles the call left None.
Omitted == Roles(call.design) \ DOMAIN call.args

Finished == out.status # "none"

RejectedAtEntry == out.status = "raised" /\ out.stage = "entry"

\* The value the result record gives for role r.
Returns(r) == out.record[Key(call.design, r)]

\* C1: every entry point rejects, before constructing the design or
\* computing anything, a call that omits none or more than one of the
\* design's solvable roles.
C1_MiscountRejected ==
  (Finished /\ Cardinality(Omitted) # 1) => RejectedAtEntry

\* C2: when exactly one solvable role is omitted, the branch pwr_test takes
\* is the branch of that role, never that of a supplied role.
C2_SolvesOmittedRole ==
  (out.stage = "pwr_test" /\ Cardinality(Omitted) = 1) => out.branch \in Omitted

\* C3: the result record gives every supplied role the value supplied; only
\* the omitted role's entry differs from the inputs.
C3_SuppliedUnchanged ==
  (out.status = "returned" /\ Cardinality(Omitted) = 1) =>
    \A r \in DOMAIN call.args :
      /\ Key(call.design, r) \in DOMAIN out.record
      /\ Returns(r) = call.args[r]

\* C4: a supplied alpha or power that is 0, 1 or outside [0, 1] is rejected
\* at the entry point, before any computation.
C4_UnitEndsRejected ==
  (Finished /\ \E r \in {"alpha", "power"} \cap DOMAIN call.args :
                 call.args[r] <= 0 \/ call.args[r] >= Unit)
    => RejectedAtEntry

\* The design's minimum for a count: the bound of the entry point's own
\* check, and for the clusters of wp_mrt2arm_test the two its docstring
\* requires.
Minimum(d, r) ==
  LET cs == Checks(d)
      at == {i \in 1..Len(cs) : cs[i][1] = "min" /\ cs[i][2] = r}
  IN  IF d = "wp_mrt2arm_test" /\ r = "J" THEN 2 * Unit
      ELSE IF at = {} THEN 0
      ELSE cs[CHOOSE i \in at : TRUE][3]

\* C5: a supplied sample size or count below the design's minimum is
\* rejected at the entry point, before any computation.
C5_BelowMinimumRejected ==
  (Finished /\ \E r \in Counts \cap DOMAIN call.args :
                 call.args[r] < Minimum(call.design, r))
    => RejectedAtEntry

\* C6: solving a role for target power P and calling the same entry point
\* again with the role fixed to the root and power omitted returns P.
C6_RoundTrip ==
  (prev.role # "-" /\ out.status = "returned" /\ out.branch = "power")
    => Returns("power") = prev.target

\* C7: a solved count is returned as the ceiling of the root the root-finder
\* found; any other solved role is returned as the root itself.
C7_CeilingOfRoot ==
  (out.status = "returned" /\ out.branch # "power") =>
    IF out.branch \in Counts
    THEN /\ Returns(out.branch) % Unit = 0
         /\ out.root <= Returns(out.branch)
         /\ Returns(out.branch) < out.root + Unit
    ELSE Returns(out.branch) = out.root

\* A count was solved and its root was not a whole number.
C7_Witness ==
  /\ out.status = "returned"
  /\ out.branch \in Counts
  /\ out.root % Unit # 0
  /\ Returns(out.branch) > out.root

\* C8: at a returned count the design's power is not below the requested
\* power, and at that count minus one it is strictly below it.
C8_MinimalInteger ==
  (out.status = "returned" /\ out.branch \in Counts) =>
    /\ PowerAt(call.design, out.branch, Returns(out.branch), out.root)
         \in {"at", "above", "unknown"}
    /\ PowerAt(call.design, out.branch, Returns(out.branch) - Unit, out.root)
         \in {"below", "unknown"}

\* C9: when the samples are all non-negative or all non-positive, zeros
\* included, nuniroot fails with its advising no-root error and calls
\* bisect on nothing.
C9_NoRootError ==
  (/\ grid.status \notin {"idle", "called"}
   /\ \/ \A i \in DOMAIN grid.f_output : grid.f_output[i] >= 0
      \/ \A i \in DOMAIN grid.f_output : grid.f_output[i] <= 0)
    => (grid.status = "noroot" /\ grid.bisect = << >>)

\* C10: on success nuniroot calls bisect once, on the x of the largest
\* negative sample and the x of the smallest positive sample, and returns a
\* point of that interval.
C10_BracketsNearestSamples ==
  grid.status = "returned" =>
    /\ Len(grid.bisect) = 1
    /\ \E i, j \in DOMAIN grid.f_output :
         /\ grid.f_output[i] < 0
         /\ \A k \in DOMAIN grid.f_output :
              grid.f_output[k] < 0 => grid.f_output[k] <= grid.f_output[i]
         /\ grid.f_output[j] > 0
         /\ \A k \in DOMAIN grid.f_output :
              grid.f_output[k] > 0 => grid.f_output[j] <= grid.f_output[k]
         /\ grid.bisect[1] = <<grid.x[i], grid.x[j]>>
    /\ min({grid.bisect[1][1], grid.bisect[1][2]}) <= grid.result
    /\ grid.result <= max({grid.bisect[1][1], grid.bisect[1][2]})

\* nuniroot returned after sampling two different negative and two
\* different positive values.
C10_Witness ==
  /\ grid.status = "returned"
  /\ Cardinality({v \in Range(grid.f_output) : v < 0}) = 2
  /\ Cardinality({v \in Range(grid.f_output) : v > 0}) = 2

\* C11: a backward solve through brentq or bisect whose residual has the
\* same sign at both ends of the interval, or is not finite at either end,
\* ends in an error and returns no record.
C11_BracketErrorRaised ==
  (/\ out.ends # NoEnds
   /\ \/ "nan" \in Range(out.ends)
      \/ (out.ends[1] = out.ends[2] /\ out.ends[1] \in {"neg", "pos"}))
    => (out.status = "raised" /\ out.record = Empty)

\* The alternatives a design's class distinguishes.
AltSupported(d) ==
  IF d \in {"wp_mrt2arm_test", "wp_mrt3arm_test", "wp_crt2arm_test",
            "wp_crt3arm_test"}
  THEN {"two-sided", "one-sided"}
  ELSE {"two-sided", "greater", "less"}

\* The test types a design's class distinguishes.
TypeSupported(d) ==
  CASE d = "wp_anova_test" -> {"overall", "two-sided", "greater", "less"}
    [] d = "wp_regression_test" -> {"regular", "cohen"}
    [] d = "wp_mrt2arm_test" -> {"main", "site", "variance"}
    [] OTHER -> TypeAllowed(d)

Unrecognized ==
  \/ /\ call.alternative # "-"
     /\ casefold(call.alternative) \notin AltSupported(call.design)
  \/ /\ call.test_type # "-"
     /\ casefold(call.test_type) \notin TypeSupported(call.design)

\* C12: every entry point rejects at entry a test type or alternative that
\* is not one of the design's supported variants; none goes on to be
\* computed as if it were a supported one.
C12_UnrecognizedVariantRejected ==
  (Finished /\ Unrecognized) => RejectedAtEntry

\* The signed effect size of the designs whose alternative names a
\* direction.
Directional ==
  [wp_one_prop_test |-> "h", wp_two_prop_one_n_test |-> "h",
   wp_two_prop_two_n_test |-> "h", wp_t1_test |-> "d", wp_t2_test |-> "d",
   wp_correlation_test |-> "r"]

\* The call gives an effect whose sign is opposite to its alternative.
Opposite ==
  /\ call.design \in DOMAIN Directional
  /\ Directional[call.design] \in DOMAIN call.args
  /\ LET e == call.args[Directional[call.design]]
     IN  \/ casefold(call.alternative) = "greater" /\ e < 0
         \/ casefold(call.alternative) = "less" /\ e > 0

\* C13: a call of a design with a directional alternative whose effect
\* size has the sign opposite to the direction ends in an error.
C13_OppositeSignRaises ==
  (Finished /\ Opposite) => out.status = "raised"

\* C14: a call that passes validation with degrees of freedom that are not
\* positive (one-way ANOVA with n <= k) ends in a domain error and returns
\* no record.
C14_NegativeDfRaises ==
  (/\ Finished
   /\ ~RejectedAtEntry
   /\ NegativeDf(call.design, call.args))
    => (out.status = "raised" /\ out.error = "domain")

RootFinders == {"brentq", "bisect", "nuniroot"}

MaxCalls == 3

\* The calls made: forward calls of the two regression designs, with n at
\* its usual value or at an edge.
CallPool ==
  {c \in Calls("wp_logistic_test") \cup Calls("wp_poisson_test") :
     /\ Roles(c.design) \ DOMAIN c.args = {"power"}
     /\ \A r \in DOMAIN c.args \ {"n"} : c.args[r] = Base(c.design)[r]
     /\ c.alternative \in {"two-sided", "less"}}

InitCalls ==
  /\ call \in CallPool
  /\ obj = Empty
  /\ out = NoOut
  /\ prev = Unknown
  /\ grid = NoGrid
  /\ log = << >>
  /\ memo = Empty

\* An instance whose __init__ leaves an attribute alone when its argument
\* is None.
InstanceKeepsOld(old, fresh) ==
  [x \in (DOMAIN old) \cup (DOMAIN fresh) |->
     IF x \in DOMAIN fresh THEN fresh[x] ELSE old[x]]

\* The attributes of the instance a call constructs, given those of the
\* instance of the call before (old) and what __init__ assigns (fresh):
\* the object is new and __init__ assigns every attribute, None included.
Instance(old, fresh) == fresh

\* The entry point up to and including the construction of the instance.
construct ==
  /\ out.status = "none"
  /\ out.stage = "-"
  /\ LET d == call.design
         v == Validate(d, call.args, call.alternative, call.test_type)
         r == IF v[1] # "ok"
              THEN Raised(v[1], v[2], "entry", "-", "-", Empty)
              ELSE Raised("domain", "p0", "init", "-", "-", Empty)
     IN  IF v[1] # "ok" \/ InitRaises(d, call.args)
         THEN /\ out' = r.out
              /\ log' = Append(log, [call |-> call, out |-> r.out])
              /\ UNCHANGED obj
         ELSE /\ out' = [NoOut EXCEPT !.stage = "constructed"]
              /\ obj' = Instance(obj, Construct(d, call.args, call.alternative))
              /\ UNCHANGED log
  /\ UNCHANGED <<call, prev, grid, memo>>

\* pwr_test on the instance, and the return of the entry point.
run ==
  /\ out.status = "none"
  /\ out.stage = "constructed"
  /\ LET key == [design |-> call.design,
                 alternative |-> casefold(call.alternative),
                 test_type |-> casefold(call.test_type),
                 instance |-> obj]
     IN  \E r \in pwr_test(call.design, obj, key.alternative, key.test_type,
                           Unknown) :
           /\ key \in DOMAIN memo => r = memo[key]
           /\ memo' = Put(memo, key, r)
           /\ out' = r.out
           /\ obj' = r.obj
           /\ log' = Append(log, [call |-> call, out |-> r.out])
  /\ UNCHANGED <<call, prev, grid>>

\* The caller makes its next call.
another ==
  /\ out.status # "none"
  /\ Len(log) < MaxCalls
  /\ \E c \in CallPool : call' = c
  /\ out' = NoOut
  /\ UNCHANGED <<obj, prev, grid, log, memo>>

NextCalls == construct \/ run \/ another

SpecCalls == InitCalls /\ [][NextCalls]_vars

abs(x) == IF x < 0 THEN 0 - x ELSE x

EffectValues == {0 - 5 * Tick, 0 - 3 * Tick, 3 * Tick, 5 * Tick}

SizeValues == {Nominal("n"), 2 * Nominal("n"), 3 * Nominal("n")}

\* The forward calls of wp_one_prop_test that pass its validation.
PowerCalls ==
  {c \in [design : {"wp_one_prop_test"},
          alternative : {"two-sided", "greater", "less"},
          test_type : {"-"},
          args : {[h |-> e, n |-> s, alpha |-> Nominal("alpha")] :
                    e \in EffectValues, s \in SizeValues}] :
     Validate(c.design, c.args, c.alternative, c.test_type)[1] = "ok"}

\* WpOneProp._get_power is norm.sf(norm.isf(alpha) - h * sqrt(n)) for
\* "greater", norm.cdf(norm.ppf(alpha) - h * sqrt(n)) otherwise, and the sum
\* of the two at alpha / 2 for "two-sided".  With alpha fixed the first
\* rises with h * sqrt(n), the second falls with it and the sum rises with
\* its absolute value; the rank orders the powers as the formula does.
PowerRank(o, alt) ==
  CASE alt = "two-sided" -> abs(o["h"]) * sqrt(o["n"])
    [] alt = "greater" -> o["h"] * sqrt(o["n"])
    [] OTHER -> 0 - o["h"] * sqrt(o["n"])

InitPower ==
  /\ call \in PowerCalls
  /\ obj = Empty
  /\ out = NoOut
  /\ prev = Unknown
  /\ grid = NoGrid
  /\ log = << >>
  /\ memo = Empty

\* WpOneProp(h, n, alpha, None, alternative)._get_power().
get_power ==
  /\ Len(log) < 2
  /\ \A i \in DOMAIN log : log[i].call # call
  /\ LET o == Construct(call.design, call.args, call.alternative)
     IN  log' = Append(log, [call |-> call,
                             rank |-> PowerRank(o, casefold(call.alternative))])
  /\ UNCHANGED <<call, obj, out, prev, grid, memo>>

\* The same call with a larger sample size or an effect of the same sign
\* and a larger magnitude.
larger ==
  /\ Len(log) = 1
  /\ call = log[1].call
  /\ \E c \in PowerCalls :
       /\ c.alternative = call.alternative
       /\ c.args["alpha"] = call.args["alpha"]
       /\ \/ /\ c.args["h"] = call.args["h"]
             /\ c.args["n"] > call.args["n"]
          \/ /\ c.args["n"] = call.args["n"]
             /\ c.args["h"] * call.args["h"] > 0
             /\ abs(c.args["h"]) > abs(call.args["h"])
       /\ call' = c
  /\ UNCHANGED <<obj, out, prev, grid, log, memo>>

NextPower == get_power \/ larger

SpecPower == InitPower /\ [][NextPower]_vars

\* C17: with alpha fixed, the implied power does not decrease when the
\* sample size grows or when the magnitude of the effect size grows.
C17_PowerNonDecreasing ==
  Len(log) = 2 => log[1].rank <= log[2].rank

(***************************************************************************)
(* WpTwoT._get_alpha, the residual brentq solves for alpha, under the two  *)
(* one-sided alternatives.                                                 *)
(***************************************************************************)
\* The calls of wp_t2_test with alpha=None and a one-sided alternative that
\* pass its validation.
TwoTCalls ==
  {c \in [design : {"wp_t2_test"},
          alternative : {"greater", "less"},
          test_type : {"-"},
          args : {[n1 |-> s1, n2 |-> s2, d |-> e, power |-> Nominal("power")] :
                    s1 \in SizeValues, s2 \in SizeValues,
                    e \in EffectValues \cup {0}}] :
     Validate(c.design, c.args, c.alternative, c.test_type)[1] = "ok"}

\* The residual of WpTwoT._get_alpha as a function of alpha.  "greater" is
\* nct.sf(t_dist.isf(alpha, nu), nu, ncp) - power and "less" is
\* nct.cdf(t_dist.ppf(alpha, nu), nu, ncp) - power, with nu = n1 + n2 - 2
\* and ncp = d * (1 / sqrt(1 / n1 + 1 / n2)).  As t_dist.ppf(alpha, nu) is
\* -t_dist.isf(alpha, nu) and nct.cdf(-q, nu, ncp) is nct.sf(q, nu, -ncp),
\* the second is the first at -ncp; the function is strictly monotone in
\* alpha and in ncp, so two residuals have the same root exactly when nu,
\* the signed ncp and power agree.
TwoTResidual(o, alt) ==
  LET ncp == o["d"] * sqrt((o["n1"] * o["n2"]) \div (o["n1"] + o["n2"]))
  IN  [nu |-> o["n1"] + o["n2"] - 2 * Unit,
       ncp |-> IF alt = "greater" THEN ncp ELSE 0 - ncp,
       power |-> o["power"]]

InitTwoT ==
  /\ call \in TwoTCalls
  /\ obj = Empty
  /\ out = NoOut
  /\ prev = Unknown
  /\ grid = NoGrid
  /\ log = << >>
  /\ memo = Empty

\* WpTwoT(...).pwr_test() in its alpha branch: the residual handed to
\* brentq.
get_alpha ==
  /\ Len(log) < 2
  /\ \A i \in DOMAIN log : log[i].call # call
  /\ LET o == Construct(call.design, call.args, call.alternative)
     IN  log' = Append(log,
                       [call |-> call,
                        residual |-> TwoTResidual(o, casefold(call.alternative))])
  /\ UNCHANGED <<call, obj, out, prev, grid, memo>>

\* The same call with the other one-sided alternative.
other_alternative ==
  /\ Len(log) = 1
  /\ call = log[1].call
  /\ call' = [call EXCEPT !.alternative =
                IF call.alternative = "greater" THEN "less" ELSE "greater"]
  /\ UNCHANGED <<obj, out, prev, grid, log, memo>>

NextTwoT == get_alpha \/ other_alternative

SpecTwoT == InitTwoT /\ [][NextTwoT]_vars

\* C18: in the two-sample unequal-n t-test, solving for alpha gives the
\* same result under "greater" and under "less" when n1, n2, d and power
\* are the same.
C18_GreaterLessSameAlpha ==
  Len(log) = 2 => log[1].residual = log[2].residual

\* C19: the residual handed to the root-finder is the forward formula with
\* the candidate in place of the solved role: it does not read the solved
\* role off the instance, and it evaluates what _get_power evaluates, its
\* arguments in the same order.
C19_ResidualIsForwardFormula ==
  (out.stage = "pwr_test" /\ out.branch # "power") =>
    /\ ~ReadsOwnField(call.design, out.branch, casefold(call.test_type))
    /\ out.status = "returned" =>
         LET o == Put(obj, out.branch, out.root)
             alt == casefold(call.alternative)
             tt == casefold(call.test_type)
         IN  Formula(call.design, out.branch, o, alt, tt)
               = Formula(call.design, "power", o, alt, tt)

\* C20: the interval nuniroot hands to bisect is made of two adjacent grid
\* points between which the samples change sign, whenever the samples hold
\* both a negative and a positive value.
C20_AdjacentGridPoints ==
  grid.status = "returned" =>
    \E i \in 1..(Len(grid.x) - 1) :
      /\ {grid.bisect[1][1], grid.bisect[1][2]} = {grid.x[i], grid.x[i + 1]}
      /\ grid.f_output[i] * grid.f_output[i + 1] < 0

(***************************************************************************)
(* The two regression designs with their family argument, step by step:    *)
(* the entry point's validation, __init__, the dispatch of pwr_test and    *)
(* _get_values.  log lists the steps a call has run.                       *)
(***************************************************************************)
\* The families _get_values has a branch for.
Families ==
  {"bernoulli", "exponential", "lognormal", "normal", "poisson", "uniform"}

\* The calls: family as given, parameter None or a value.
FamilyCalls ==
  {[design |-> c.design, args |-> c.args, alternative |-> c.alternative,
    test_type |-> c.test_type, family |-> fam, parameter |-> par] :
     c \in {c \in Calls("wp_poisson_test") \cup Calls("wp_logistic_test") :
              c.alternative = "two-sided"},
     fam \in {"Bernoulli", "poisson", "sideways"},
     par \in {"None", "given"}}

\* The steps that are numerical work: a root-finder, the forward formula,
\* the logarithms and integrals of _get_values.
NumericalSteps == RootFinders \cup {"_get_power", "_get_values"}

\* The errors raised by the validation statements.
ValidationErrors == {"none_required", "only_one_none", "domain", "variant"}

InitFamily ==
  /\ call \in FamilyCalls
  /\ obj = Empty
  /\ out = NoOut
  /\ prev = Unknown
  /\ grid = NoGrid
  /\ log = << >>
  /\ memo = Empty

\* wp_poisson_test / wp_logistic_test up to the constructed instance: the
\* validation statements, then __init__, which looks at family only when
\* parameter is None.
validate ==
  /\ out.status = "none"
  /\ out.stage = "-"
  /\ LET d == call.design
         v == Validate(d, call.args, call.alternative, call.test_type)
     IN  IF v[1] # "ok"
         THEN /\ out' = Raised(v[1], v[2], "entry", "-", "-", Empty).out
              /\ log' = <<"validate">>
              /\ UNCHANGED obj
         ELSE IF InitRaises(d, call.args)
         THEN /\ out' = Raised("domain", "p0", "init", "-", "-", Empty).out
              /\ log' = <<"validate", "__init__">>
              /\ UNCHANGED obj
         ELSE IF call.parameter = "None"
                 /\ casefold(call.family) \notin Families
         THEN /\ out' = Raised("variant", "family", "init", "-", "-", Empty).out
              /\ log' = <<"validate", "__init__">>
              /\ UNCHANGED obj
         ELSE /\ out' = [NoOut EXCEPT !.stage = "constructed"]
              /\ obj' = Construct(d, call.args, call.alternative)
              /\ log' = <<"validate", "__init__">>
  /\ UNCHANGED <<call, prev, grid, memo>>

\* pwr_test: the branch taken calls _get_power or hands a residual to the
\* root-finder.
dispatch ==
  /\ out.status = "none"
  /\ out.stage = "constructed"
  /\ out' = [out EXCEPT !.stage = "dispatched"]
  /\ log' = log \o Invocations(call.design, Branch(call.design, obj))
  /\ UNCHANGED <<call, obj, prev, grid, memo>>

\* The first evaluation: _get_values takes the logarithms, then raises for
\* a family it has no branch for; otherwise the call runs to its end.
get_values ==
  /\ out.status = "none"
  /\ out.stage = "dispatched"
  /\ log' = Append(log, "_get_values")
  /\ LET d == call.design
         b == Branch(d, obj)
     IN  IF casefold(call.family) \notin Families
         THEN /\ out' = Raised("variant", "family", "pwr_test", b,
                               Finder(d, b), obj).out
              /\ UNCHANGED obj
         ELSE \E r \in pwr_test(d, obj, casefold(call.alternative),
                                casefold(call.test_type), Unknown) :
                /\ out' = r.out
                /\ obj' = r.obj
  /\ UNCHANGED <<call, prev, grid, memo>>

NextFamily == validate \/ dispatch \/ get_values

SpecFamily == InitFamily /\ [][NextFamily]_vars

\* C21: a call that ends in a validation error (wrong number of omitted
\* roles, out-of-domain value, unsupported variant) has run no
\* implied-power formula, integration or root-finder step before it.
C21_ValidationBeforeNumericalWork ==
  (out.status = "raised" /\ out.error \in ValidationErrors) =>
    Range(log) \cap NumericalSteps = {}

MaxIter == 100

\* The calls: the usual arguments with up to MaxOmitted roles omitted.
StepCalls ==
  {c \in Calls("wp_crt2arm_test") :
     /\ c.alternative = "two-sided"
     /\ \A r \in DOMAIN c.args : c.args[r] = Base(c.design)[r]}

InitSteps ==
  /\ call \in StepCalls
  /\ obj = Empty
  /\ out = NoOut
  /\ prev = Unknown
  /\ grid = NoGrid
  /\ log = << >>
  /\ memo = Empty

\* What nuniroot does when no sign change is found: a status that starts
\* the sampling again.
SampleAgain(status) == "sampling"

\* What nuniroot does when no sign change is found: it raises.
NoSignChange(status) == status

\* wp_crt2arm_test up to the call of nuniroot (or, with power omitted, to
\* its return).
enter ==
  /\ out.status = "none"
  /\ grid.status = "idle"
  /\ LET d == call.design
         v == Validate(d, call.args, call.alternative, call.test_type)
         o == Construct(d, call.args, call.alternative)
         b == Branch(d, o)
         iv == Interval(d, b, o, casefold(call.alternative))
     IN  IF v[1] # "ok"
         THEN /\ out' = Raised(v[1], v[2], "entry", "-", "-", Empty).out
              /\ UNCHANGED <<obj, grid, log>>
         ELSE IF b = "power"
         THEN /\ \E r \in pwr_test(d, o, casefold(call.alternative),
                                   casefold(call.test_type), Unknown) :
                   out' = r.out /\ obj' = r.obj
              /\ log' = <<"_get_power">>
              /\ UNCHANGED grid
         ELSE /\ out' = [NoOut EXCEPT !.stage = "pwr_test", !.branch = b,
                                      !.finder = Finder(d, b)]
              /\ obj' = o
              /\ grid' = [status |-> "sampling", low_val |-> iv[1],
                          high_val |-> iv[2],
                          x |-> linspace(iv[1], iv[2], GridLen),
                          f_output |-> << >>, bisect |-> << >>, result |-> 0,
                          dm |-> 0, iter |-> 0]
              /\ UNCHANGED log
  /\ UNCHANGED <<call, prev, memo>>

\* One element of [f(x_i) for x_i in x].
sample ==
  /\ grid.status = "sampling"
  /\ Len(grid.f_output) < GridLen
  /\ \E s \in Signs : grid' = [grid EXCEPT !.f_output = Append(@, s)]
  /\ log' = Append(log, "sample")
  /\ UNCHANGED <<call, obj, out, prev, memo>>

\* Lines 26-35 of utils.py: raise, or call bisect, which evaluates the
\* residual at both ends of its interval.
decide ==
  /\ grid.status = "sampling"
  /\ Len(grid.f_output) = GridLen
  /\ LET r == nuniroot(grid.x, grid.f_output)
     IN  IF r.status = "bisect"
         THEN /\ grid' = [grid EXCEPT !.status = "bisecting",
                                      !.bisect = <<r.interval>>,
                                      !.dm = abs(r.interval[2] - r.interval[1])]
              /\ log' = log \o <<"end", "end">>
              /\ UNCHANGED out
         ELSE IF NoSignChange(r.status) = "sampling"
         THEN /\ grid' = [grid EXCEPT !.f_output = << >>]
              /\ UNCHANGED <<log, out>>
         ELSE /\ grid' = [grid EXCEPT !.status = r.status]
              /\ out' = Raised(r.status, out.branch, "pwr_test", out.branch,
                               out.finder, obj).out
              /\ UNCHANGED log
  /\ UNCHANGED <<call, obj, prev, memo>>

\* One iteration of bisect: halve, evaluate at the midpoint, return when
\* the value is zero or the half-width is within the tolerance, raise
\* RuntimeError after maxiter iterations.
bisect_step ==
  /\ grid.status = "bisecting"
  /\ log' = Append(log, "mid")
  /\ LET dm == grid.dm \div 2
         d == call.design
         b == out.branch
     IN  \E zero \in BOOLEAN :
           IF zero \/ dm <= Eps
           THEN \E x \in Roots(grid.bisect[1][1], grid.bisect[1][2]) :
                  LET r == Returned(d, Put(obj, b, IF b \in Ceiled(d)
                                                   THEN ceil(x) ELSE x),
                                    b, out.finder, x)
                  IN  /\ out' = r.out
                      /\ obj' = r.obj
                      /\ grid' = [grid EXCEPT !.status = "returned",
                                              !.result = x, !.dm = dm,
                                              !.iter = @ + 1]
           ELSE IF grid.iter + 1 >= MaxIter
           THEN /\ out' = Raised("RuntimeError", b, "pwr_test", b,
                                 out.finder, obj).out
                /\ grid' = [grid EXCEPT !.status = "failed"]
                /\ UNCHANGED obj
           ELSE /\ grid' = [grid EXCEPT !.dm = dm, !.iter = @ + 1]
                /\ UNCHANGED <<out, obj>>
  /\ UNCHANGED <<call, prev, memo>>

NextSteps == enter \/ sample \/ decide \/ bisect_step

\* A call that has started keeps running.
SpecSteps == InitSteps /\ [][NextSteps]_vars /\ WF_vars(NextSteps)

\* C23: every call ends in a result record or an error, and a backward
\* solve through nuniroot makes max_length grid evaluations followed by a
\* bounded number of evaluations inside bisect, with no retry.
C23_Terminates ==
  /\ <>(out.status \in {"returned", "raised"})
  /\ [](Len(log) <= GridLen + 2 + MaxIter)
  /\ [](grid.status \in {"bisecting", "returned"} =>
          Len(SelectSeq(log, LAMBDA e : e = "sample")) = GridLen)

\* A solve returned after bisect evaluated the residual at a midpoint.
C23_Witness ==
  /\ out.status = "returned"
  /\ grid.status = "returned"
  /\ grid.iter > 1

\* A call of wp_mrt2arm_test for the site or variance test that gives no f
\* and omits one of power, n and J.
SiteOrVarianceWithoutF ==
  /\ call.design = "wp_mrt2arm_test"
  /\ casefold(call.test_type) \in {"site", "variance"}
  /\ "f" \in Omitted
  /\ \E r \in {"power", "n", "J"} : Omitted = {"f", r}

\* C24: in wp_mrt2arm_test with test_type 'site' or 'variance' and f
\* omitted, each of power, n and J can be solved: the call takes the branch
\* of the omitted role and does not fail on the missing f or on any other
\* missing field.
C24_SolvableWithoutF ==
  (Finished /\ SiteOrVarianceWithoutF) =>
    /\ out.branch \in Omitted
    /\ out.error \notin {"TypeError", "NotImplementedError"}

(***************************************************************************)
(* Letter case of the alternative, test_type and family strings.           *)
(***************************************************************************)
\* The strings the calls pass that differ from a documented spelling only
\* in letter case, each with that spelling.
LetterCases ==
  { <<"Two-Sided", "two-sided">>, <<"GREATER", "greater">>,
    <<"Overall", "overall">>, <<"One-Sided", "one-sided">>,
    <<"MAIN", "main">>, <<"Close", "close">>, <<"Bernoulli", "bernoulli">> }

\* The documented spelling of a string.
Documented(s) ==
  IF \E p \in LetterCases : p[1] = s
  THEN (CHOOSE p \in LetterCases : p[1] = s)[2]
  ELSE s

\* The call that differs from c only in the letter case of its strings.
Respelled(c) ==
  [c EXCEPT !.alternative = Documented(@), !.test_type = Documented(@)]

\* The calls spelled in another letter case than the documented one.
CaseCalls == {c \in UNION {Calls(d) : d \in Designs} : Respelled(c) # c}

InitCase ==
  /\ call \in CaseCalls
  /\ obj = Empty
  /\ out = NoOut
  /\ prev = Unknown
  /\ grid = NoGrid
  /\ log = << >>
  /\ memo = Empty

\* The call in the documented spelling, from the entry point's first
\* statement to its return or raise: log keeps every outcome it can have.
documented ==
  /\ log = << >>
  /\ log' = <<{r.out : r \in Outcomes(Respelled(call), prev)}>>
  /\ UNCHANGED <<call, obj, out, prev, grid, memo>>

\* The call as it was spelled, from the entry point's first statement to its
\* return or raise.
spelled ==
  /\ log # << >>
  /\ EntryPoint(call.design)

NextCase == documented \/ spelled

SpecCase == InitCase /\ [][NextCase]_vars

AnovaTestTypes == {"overall", "two-sided", "greater", "less"}

\* WpAnovaClass.__init__: the note stored for the casefolded test_type.
note(test_type) ==
  IF test_type = "overall" THEN "n is the total sample size (overall)"
  ELSE IF test_type = "greater"
  THEN "n is the total sample size (contrast, greater)"
  ELSE IF test_type = "lower"
  THEN "n is the total sample size (contrast, less)"
  ELSE "n is the total sample size (contrast, two-sided)"

\* C26: a wp_anova_test call with one of the four documented test types
\* returns the note that names that test type ('less' the note ending
\* "(contrast, less)"), and only 'two-sided' returns the two-sided note.
C26_NoteNamesTestType ==
  LET tt == casefold(call.test_type)
  IN  (call.design = "wp_anova_test" /\ out.status = "returned"
         /\ tt \in AnovaTestTypes) =>
        /\ tt = "overall" => note(tt) = "n is the total sample size (overall)"
        /\ tt = "greater" =>
             note(tt) = "n is the total sample size (contrast, greater)"
        /\ tt = "less" =>
             note(tt) = "n is the total sample size (contrast, less)"
        /\ note(tt) = "n is the total sample size (contrast, two-sided)"
             <=> tt = "two-sided"

\* C27: wp_regression_test rejects at entry every call whose p1 is not
\* larger than p2, so that u = p1 - p2 is at least 1 in every call it
\* accepts.
C27_FullModelLarger ==
  (call.design = "wp_regression_test" /\ Finished) =>
    /\ call.args["p1"] <= call.args["p2"] => RejectedAtEntry
    /\ ~RejectedAtEntry => call.args["p1"] - call.args["p2"] >= Unit

\* The sample taken at the grid point p.
SampleAt(p) == grid.f_output[CHOOSE i \in DOMAIN grid.x : grid.x[i] = p]

\* C28: whenever nuniroot reaches bisect, the residual is strictly negative
\* at the first endpoint it passes and strictly positive at the second,
\* whichever endpoint is the smaller and whether or not a sample is zero;
\* both endpoints are grid points inside [low_val, high_val].
C28_BracketSigns ==
  grid.bisect # << >> =>
    LET a == grid.bisect[1][1]
        b == grid.bisect[1][2]
    IN  /\ {a, b} \subseteq Range(grid.x)
        /\ SampleAt(a) < 0
        /\ SampleAt(b) > 0
        /\ \A p \in {a, b} : grid.low_val <= p /\ p <= grid.high_val

\* bisect was reached with the first endpoint above the second and a sample
\* that is exactly zero.
C28_Witness ==
  /\ grid.bisect # << >>
  /\ grid.bisect[1][1] > grid.bisect[1][2]
  /\ 0 \in Range(grid.f_output)

(***************************************************************************)
(* Feeding a returned value back to the entry point.                       *)
(***************************************************************************)
\* The arguments of the finished call with the solved role at the value the
\* record returns for it.
FedBack == Put(call.args, out.branch, Returns(out.branch))

\* Whether validation statement c raises on the arguments a: a comparison
\* with nan is false, so no statement raises on a role that is nan.
Rejects(c, a) ==
  /\ ~(c[2] \in DOMAIN a /\ a[c[2]] = NaN)
  /\ Raises(c, a, call.alternative, call.test_type, call.design)

\* C29: every value returned for a solved role passes the entry point's own
\* validation statements when it is passed back as an argument: a solved
\* alpha or icc lies in [0, 1], a solved count is at least the minimum the
\* entry point checks.
C29_ReturnedValueIsValid ==
  out.status = "returned" =>
    LET cs == Checks(call.design)
    IN  \A i \in 1..Len(cs) : ~Rejects(cs[i], FedBack)

\* A solved count was returned at exactly the minimum the entry point
\* checks for it.
C29_Witness ==
  /\ out.status = "returned"
  /\ out.branch \in Counts
  /\ \E i \in 1..Len(Checks(call.design)) :
       Checks(call.design)[i] = <<"min", out.branch, Returns(out.branch)>>

\* The proportion tests and the t-tests.
ProportionAndTTests ==
  {"wp_one_prop_test", "wp_two_prop_one_n_test", "wp_two_prop_two_n_test",
   "wp_t1_test", "wp_t2_test"}

\* C30: an effect size solved by a proportion test or a t-test is returned
\* strictly positive and at most 10 for the 'two-sided' alternative, in
\* [-5, 10] for 'greater' and in [-10, 5] for 'less'.
C30_EffectSizeInBracket ==
  (/\ out.status = "returned"
   /\ call.design \in ProportionAndTTests
   /\ out.branch \in {"h", "d"}) =>
    LET v == Returns(out.branch)
        alt == casefold(call.alternative)
    IN  /\ alt \in {"two-sided", "greater", "less"}
        /\ alt = "two-sided" => (0 < v /\ v <= 10 * Unit)
        /\ alt = "greater" => (0 - 5 * Unit <= v /\ v <= 10 * Unit)
        /\ alt = "less" => (0 - 10 * Unit <= v /\ v <= 5 * Unit)

\* A two-sided call returned the effect size at the low end of its bracket.
C30_Witness ==
  /\ out.status = "returned"
  /\ call.design \in ProportionAndTTests
  /\ out.branch \in {"h", "d"}
  /\ casefold(call.alternative) = "two-sided"
  /\ Returns(out.branch) = Eps

====
